---- MODULE Spec2Model ----
(***************************************************************************)
(* Model of src/search/search-index/util.js (Memex search index helpers).  *)
(*                                                                         *)
(*  - the write serializer makeIndexFnConcSafe over the shared indexQueue  *)
(*  - the range scans built on index.db.createReadStream                   *)
(*  - the point lookups initSingleLookup / initLookupByKeys                *)
(***************************************************************************)
EXTENDS Integers, Sequences, FiniteSets, TLC

(***************************************************************************)
(* Bounds                                                                  *)
(***************************************************************************)
NumCallers == 3

Callers == 1..NumCallers

(***************************************************************************)
(* Write serializer state                                                  *)
(***************************************************************************)
VARIABLES
    kind,          \* kind[c]: what the wrapped fn of call c does ("inc" | "fail")
    pc,            \* pc[c]: position of call c
    indexQueue,    \* jobs pushed on the shared queue and not yet started
    active,        \* jobs the queue has started and not yet seen finished
    fnOutcome,     \* settlement of the promise returned by fn(...args)
    thenPromise,   \* settlement of fn(...args).then(resolve)
    catchPromise,  \* settlement of fn(...args).then(resolve).catch(reject)
    callerPromise, \* the promise handed to the caller of the wrapped function
    settleCalls,   \* number of resolve/reject calls made on the caller promise
    queueFailed,   \* TRUE once the queue has seen a job finish with a failure
    counter,       \* the shared counter the increment works on
    tmp,           \* tmp[c]: the value call c read before it suspended
    pushOrder,     \* calls in the order they were pushed
    startOrder,    \* calls in the order their fn was invoked
    settleOrder    \* calls in the order their caller promise settled

qvars == <<kind, pc, indexQueue, active, fnOutcome, thenPromise, catchPromise,
           callerPromise, settleCalls, queueFailed, counter, tmp,
           pushOrder, startOrder, settleOrder>>

VARIABLES
    store,        \* the contents of index.db: key -> value
    scanOp,       \* the scan in progress
    scanArgs,     \* its arguments
    streamBuf,    \* entries the read stream has not delivered yet
    streamState,  \* "none" | "flowing" | "ended" | "destroyed" | "errored"
    data,         \* the Map the scan collects into
    histKeys,     \* grabExistingKeys: the history key Set
    bmKeys,       \* grabExistingKeys: the bookmark key Set
    scanPromise,  \* the promise the scan returned
    scanResult,   \* the value it resolved with
    delivered     \* number of 'data' events delivered to the scan's listener

svars == <<store, scanOp, scanArgs, streamBuf, streamState, data, histKeys,
           bmKeys, scanPromise, scanResult, delivered>>

VARIABLES
    lkKeys,       \* the keys one lookupByKeys call was given, in order
    lkIsArray,    \* whether they were given as an array or as one bare key
    lkOpts,       \* its options: concurrency and defaultValue
    lkState,      \* per key: "waiting" | "inflight" | "done" | "failed"
    lkEntries,    \* per key: the [key, value] entry its lookup produced
    lkDoneOrder,  \* indices of the keys in the order their gets completed
    lkPromise,    \* the promise lookupByKeys returned
    lkResult,     \* the Map it resolved with
    lkGiven,      \* the options object as the caller passed it
    lkGetError,   \* per key: the error index.get raised, "none" if none
    lkError,      \* the error the call's promise rejected with
    fxPageId,     \* fetchExistingPage: its argument
    fxPromise,    \* fetchExistingPage: the promise it returned
    fxValue       \* fetchExistingPage: the doc it resolved with or its error

lvars == <<lkKeys, lkIsArray, lkOpts, lkState, lkEntries, lkDoneOrder,
           lkPromise, lkResult, lkGiven, lkGetError, lkError,
           fxPageId, fxPromise, fxValue>>

VARIABLES
    callOp,         \* the synchronous helper that was called, "none" before
    callArgs,       \* its arguments as they were when it was called
    callArgsAfter,  \* the same argument objects once it has returned
    callResult,     \* the value it returned
    callSame        \* whether it returned its argument object itself

cvars == <<callOp, callArgs, callArgsAfter, callResult, callSame>>

vars == <<qvars, svars, lvars, cvars>>

Kinds == {"inc", "fail"}

InitialCounter == 0

(***************************************************************************)
(* The queue: one shared FIFO queue, one job at a time.                    *)
(***************************************************************************)
QueueConcurrency == 1

QueueCanStart(q, act) == Len(q) > 0 /\ Cardinality(act) < QueueConcurrency

(***************************************************************************)
(* The wrapped function of the no-lost-update scenario: read the counter,  *)
(* suspend at a store access, write counter + 1.  A "fail" call reads,     *)
(* suspends and then rejects without writing.                              *)
(***************************************************************************)
FnRead(cnt) == cnt

FnWrite(k, cnt, read) == IF k = "inc" THEN read + 1 ELSE cnt

FnSettle(k) == IF k = "inc" THEN "fulfilled" ELSE "rejected"

(***************************************************************************)
(* makeIndexFnConcSafe: the promise chain of one job                       *)
(*     fn(...args).then(resolve).catch(reject)                             *)
(***************************************************************************)
\* .then(resolve): resolve runs on fulfilment, a rejection passes through
ThenCallsResolveAlways(fnState) == TRUE

ThenCallsResolve(fnState) == fnState = "fulfilled"

ThenResult(fnState) == fnState

\* .catch(reject): reject runs on rejection; the handler returns normally
CatchCallsReject(thenState) == thenState = "rejected"

CatchResultRethrow(thenState) == thenState

CatchResult(thenState) == "fulfilled"

\* the job handed to the queue returns the chain's last promise
JobPromiseDetached(c) == "fulfilled"

JobPromise(c) == catchPromise[c]

QueueRest ==
    /\ pc = [c \in Callers |-> "idle"]
    /\ indexQueue = <<>>
    /\ active = {}
    /\ fnOutcome = [c \in Callers |-> "none"]
    /\ thenPromise = [c \in Callers |-> "none"]
    /\ catchPromise = [c \in Callers |-> "none"]
    /\ callerPromise = [c \in Callers |-> "none"]
    /\ settleCalls = [c \in Callers |-> 0]
    /\ queueFailed = FALSE
    /\ counter = InitialCounter
    /\ tmp = [c \in Callers |-> 0]
    /\ pushOrder = <<>>
    /\ startOrder = <<>>
    /\ settleOrder = <<>>

\* every call wraps either the increment or an operation that fails
QueueInit == kind \in [Callers -> Kinds] /\ QueueRest

\* no call of a wrapped function is made
QueueIdle == kind = [c \in Callers |-> "inc"] /\ QueueRest

\* A caller invokes the wrapped function: new Promise(...) and indexQueue.push(job)
Call(c) ==
    /\ pc[c] = "idle"
    /\ pc' = [pc EXCEPT ![c] = "queued"]
    /\ callerPromise' = [callerPromise EXCEPT ![c] = "pending"]
    /\ indexQueue' = Append(indexQueue, c)
    /\ pushOrder' = Append(pushOrder, c)
    /\ UNCHANGED <<kind, active, fnOutcome, thenPromise, catchPromise,
                   settleCalls, queueFailed, counter, tmp, startOrder, settleOrder>>
    /\ UNCHANGED <<svars, lvars, cvars>>

\* The queue takes the oldest job and runs it: fn(...args) is invoked and runs
\* up to its first suspension; the chain is attached to the promise it returns.
QueueStart ==
    /\ QueueCanStart(indexQueue, active)
    /\ LET c == Head(indexQueue) IN
        /\ indexQueue' = Tail(indexQueue)
        /\ active' = active \cup {c}
        /\ pc' = [pc EXCEPT ![c] = "running"]
        /\ tmp' = [tmp EXCEPT ![c] = FnRead(counter)]
        /\ fnOutcome' = [fnOutcome EXCEPT ![c] = "pending"]
        /\ thenPromise' = [thenPromise EXCEPT ![c] = "pending"]
        /\ catchPromise' = [catchPromise EXCEPT ![c] = "pending"]
        /\ startOrder' = Append(startOrder, c)
    /\ UNCHANGED <<kind, callerPromise, settleCalls, queueFailed, counter,
                   pushOrder, settleOrder>>
    /\ UNCHANGED <<svars, lvars, cvars>>

\* The store access of fn completes: fn writes (or fails) and its promise settles
FnComplete(c) ==
    /\ pc[c] = "running"
    /\ counter' = FnWrite(kind[c], counter, tmp[c])
    /\ fnOutcome' = [fnOutcome EXCEPT ![c] = FnSettle(kind[c])]
    /\ pc' = [pc EXCEPT ![c] = "fnSettled"]
    /\ UNCHANGED <<kind, indexQueue, active, thenPromise, catchPromise,
                   callerPromise, settleCalls, queueFailed, tmp,
                   pushOrder, startOrder, settleOrder>>
    /\ UNCHANGED <<svars, lvars, cvars>>

\* resolve / reject of the caller promise: only the first call settles it
Settle(cp, c, how) ==
    IF cp[c] = "pending" THEN [cp EXCEPT ![c] = how] ELSE cp

SettleLog(cp, c, log) ==
    IF cp[c] = "pending" THEN Append(log, c) ELSE log

\* Reaction of .then(resolve)
ThenStep(c) ==
    /\ pc[c] = "fnSettled"
    /\ pc' = [pc EXCEPT ![c] = "thenSettled"]
    /\ thenPromise' = [thenPromise EXCEPT ![c] = ThenResult(fnOutcome[c])]
    /\ IF ThenCallsResolve(fnOutcome[c])
         THEN /\ callerPromise' = Settle(callerPromise, c, "fulfilled")
              /\ settleOrder' = SettleLog(callerPromise, c, settleOrder)
              /\ settleCalls' = [settleCalls EXCEPT ![c] = @ + 1]
         ELSE UNCHANGED <<callerPromise, settleOrder, settleCalls>>
    /\ UNCHANGED <<kind, indexQueue, active, fnOutcome, catchPromise,
                   queueFailed, counter, tmp, pushOrder, startOrder>>
    /\ UNCHANGED <<svars, lvars, cvars>>

\* Reaction of .catch(reject)
CatchStep(c) ==
    /\ pc[c] = "thenSettled"
    /\ pc' = [pc EXCEPT ![c] = "chainSettled"]
    /\ catchPromise' = [catchPromise EXCEPT ![c] =
                           IF thenPromise[c] = "rejected"
                             THEN CatchResult(thenPromise[c])
                             ELSE thenPromise[c]]
    /\ IF CatchCallsReject(thenPromise[c])
         THEN /\ callerPromise' = Settle(callerPromise, c, "rejected")
              /\ settleOrder' = SettleLog(callerPromise, c, settleOrder)
              /\ settleCalls' = [settleCalls EXCEPT ![c] = @ + 1]
         ELSE UNCHANGED <<callerPromise, settleOrder, settleCalls>>
    /\ UNCHANGED <<kind, indexQueue, active, fnOutcome, thenPromise,
                   queueFailed, counter, tmp, pushOrder, startOrder>>
    /\ UNCHANGED <<svars, lvars, cvars>>

\* The queue sees the promise its job returned settle and frees the slot
QueueNext(c) ==
    /\ c \in active
    /\ JobPromise(c) \in {"fulfilled", "rejected"}
    /\ active' = active \ {c}
    /\ queueFailed' = (queueFailed \/ JobPromise(c) = "rejected")
    /\ UNCHANGED <<kind, pc, indexQueue, fnOutcome, thenPromise, catchPromise,
                   callerPromise, settleCalls, counter, tmp,
                   pushOrder, startOrder, settleOrder>>
    /\ UNCHANGED <<svars, lvars, cvars>>

NextQueue ==
    \/ \E c \in Callers : Call(c)
    \/ QueueStart
    \/ \E c \in Callers : FnComplete(c)
    \/ \E c \in Callers : ThenStep(c)
    \/ \E c \in Callers : CatchStep(c)
    \/ \E c \in Callers : QueueNext(c)


(***************************************************************************)
(* Strings are sequences of characters; Alphabet lists the characters in   *)
(* code-unit order, MaxChar standing for U+FFFF.                             *)
(***************************************************************************)
Digits == <<"0", "1", "2", "3", "4", "5", "6", "7", "8", "9">>

Letters == <<"a", "b", "c", "d", "e", "f", "g", "h", "i", "j", "k", "l", "m",
             "n", "o", "p", "q", "r", "s", "t", "u", "v", "w", "x", "y", "z">>

MaxChar == "uffff"

Alphabet == <<"/">> \o Digits \o <<"X", "Y">> \o Letters \o <<MaxChar>>

CharCode(ch) == CHOOSE i \in 1..Len(Alphabet) : Alphabet[i] = ch

DigitChar(n) == Digits[n + 1]

RECURSIVE LexLess(_, _)
LexLess(a, b) ==
    IF b = <<>> THEN FALSE
    ELSE IF a = <<>> THEN TRUE
    ELSE IF Head(a) = Head(b) THEN LexLess(Tail(a), Tail(b))
    ELSE CharCode(Head(a)) < CharCode(Head(b))

HasPrefix(s, pre) == Len(s) >= Len(pre) /\ SubSeq(s, 1, Len(pre)) = pre

DropFirst(s, n) == SubSeq(s, n + 1, Len(s))

(***************************************************************************)
(* JavaScript values: tagged strings, objects, sets, null and undefined    *)
(***************************************************************************)
Str(s) == [t |-> "string", v |-> s]

Obj(fields) == [t |-> "object", v |-> fields]

SetVal(elems) == [t |-> "set", v |-> elems]

Null == [t |-> "null", v |-> <<>>]

Undefined == [t |-> "undefined", v |-> <<>>]

GetField(o, f) == IF f \in DOMAIN o THEN o[f] ELSE Undefined

\* Map.prototype.set
MapSet(m, k, val) == [x \in DOMAIN m \cup {k} |-> IF x = k THEN val ELSE m[x]]

EmptyMap == <<>>

(***************************************************************************)
(* Key codec                                                               *)
(***************************************************************************)
NsChars ==
    [domain   |-> <<"d", "o", "m", "a", "i", "n">>,
     tag      |-> <<"t", "a", "g">>,
     url      |-> <<"u", "r", "l">>,
     term     |-> <<"t", "e", "r", "m">>,
     title    |-> <<"t", "i", "t", "l", "e">>,
     visit    |-> <<"v", "i", "s", "i", "t">>,
     bookmark |-> <<"b", "o", "o", "k", "m", "a", "r", "k">>]

keyGen(ns, key) == NsChars[ns] \o <<"/">> \o key

KnownPrefix(key) == \E ns \in DOMAIN NsChars : HasPrefix(key, NsChars[ns] \o <<"/">>)

\* key.replace(/^(term|title|visit|url|domain|tag|bookmark)\//, '')
removeKeyTypeFixedWidth(key) ==
    IF KnownPrefix(key) THEN DropFirst(key, Len(NsChars["term"]) + 1) ELSE key

removeKeyType(key) ==
    IF \E ns \in DOMAIN NsChars : HasPrefix(key, NsChars[ns] \o <<"/">>)
      THEN LET ns == CHOOSE n \in DOMAIN NsChars : HasPrefix(key, NsChars[n] \o <<"/">>)
           IN DropFirst(key, Len(NsChars[ns]) + 1)
      ELSE key

PagePrefix == <<"p", "a", "g", "e", "/">>

(***************************************************************************)
(* normalizeTimestampVals                                                  *)
(***************************************************************************)
normalizeTimestampValsKeepingPageId(value) ==
    IF value.t = "string"
      THEN [pageId |-> value, meta |-> EmptyMap]
      ELSE [pageId |-> GetField(value.v, "pageId"), meta |-> value.v]

normalizeTimestampVals(value) ==
    IF value.t = "string"
      THEN [pageId |-> value, meta |-> EmptyMap]
      ELSE [pageId |-> GetField(value.v, "pageId"),
            meta   |-> [f \in DOMAIN value.v \ {"pageId"} |-> value.v[f]]]

(***************************************************************************)
(* The store's read stream: the entries of the range in key order          *)
(***************************************************************************)
InRange(k, opts) ==
    /\ "gte" \in DOMAIN opts => ~LexLess(k, opts.gte)
    /\ "lte" \in DOMAIN opts => ~LexLess(opts.lte, k)

RECURSIVE SortKeys(_)
SortKeys(S) ==
    IF S = {} THEN <<>>
    ELSE LET m == CHOOSE k \in S : \A j \in S : ~LexLess(j, k)
         IN <<m>> \o SortKeys(S \ {m})

Reverse(seq) == [i \in 1..Len(seq) |-> seq[Len(seq) + 1 - i]]

createReadStream(st, opts, reverse) ==
    LET asc == SortKeys({k \in DOMAIN st : InRange(k, opts)})
    IN IF reverse THEN Reverse(asc) ELSE asc

(***************************************************************************)
(* Bounds and inputs of the scans                                          *)
(***************************************************************************)
MaxTs == 3

NumPages == 2

MaxLimit == 2

Infinity == 1000000

PageIds == {<<"p", DigitChar(i)>> : i \in 1..NumPages}

VisitKey(ts) == keyGen("visit", <<DigitChar(ts)>>)

\* the two shapes stored under a visit or bookmark key
TimestampVals ==
    {Str(p) : p \in PageIds}
        \cup {Obj([pageId |-> Str(p), foo |-> Str(<<"1">>)]) : p \in PageIds}

TermKeys ==
    {keyGen("term", <<"a">>), keyGen("term", <<"b">>), keyGen("term", <<"c">>),
     keyGen("title", <<"a">>)}

Postings == {Str(<<"X">>), Str(<<"Y">>)}

PageKeys == {PagePrefix \o <<"a">>, PagePrefix \o <<"b">>}

PageRecords ==
    {Obj([id |-> Str(<<"a">>)]),
     Obj([id |-> Str(<<"a">>), bookmarks |-> SetVal({})]),
     Obj([id |-> Str(<<"a">>), bookmarks |-> SetVal({<<"1">>, <<"2">>})])}

PartialFns(K, V) == UNION {[D -> V] : D \in SUBSET K}

Merge(f, g) == [k \in DOMAIN f \cup DOMAIN g |-> IF k \in DOMAIN f THEN f[k] ELSE g[k]]

\* entries every timestamp store also holds, outside the visit/ range
TimestampExtras ==
    [k \in {keyGen("bookmark", <<"1">>), keyGen("term", <<"a">>)} |->
        IF k = keyGen("term", <<"a">>) THEN Str(<<"X">>) ELSE Str(<<"p", "1">>)]

OtherExtras == [k \in {VisitKey(1)} |-> Str(<<"p", "1">>)]

Stores ==
    {Merge(f, TimestampExtras) : f \in PartialFns({VisitKey(ts) : ts \in 1..MaxTs}, TimestampVals)}
        \cup {Merge(f, OtherExtras) : f \in PartialFns(TermKeys, Postings)}
        \cup {Merge(f, OtherExtras) : f \in PartialFns(PageKeys, PageRecords)}

VisitRange == [gte |-> keyGen("visit", <<>>), lte |-> keyGen("visit", <<MaxChar>>)]

ScanBounds ==
    {EmptyMap,
     VisitRange,
     [gte |-> VisitKey(2), lte |-> keyGen("visit", <<MaxChar>>)],
     [lte |-> VisitKey(2)]}

Limits == 0..MaxLimit \cup {Infinity}

TermPrefixes == {keyGen("term", <<>>), keyGen("title", <<>>)}

NoArgs ==
    [termKey |-> <<>>, termsSet |-> {}, opts |-> EmptyMap, limit |-> Infinity,
     trimPrefix |-> TRUE]

ScanIdle ==
    /\ scanOp = "none"
    /\ scanArgs = NoArgs
    /\ streamBuf = <<>>
    /\ streamState = "none"
    /\ data = EmptyMap
    /\ histKeys = {}
    /\ bmKeys = {}
    /\ scanPromise = "none"
    /\ scanResult = EmptyMap
    /\ delivered = 0

\* the part every scan shares: open the stream, return a pending promise
OpenScan(op, args, streamOpts, reverse) ==
    /\ scanOp = "none"
    /\ scanOp' = op
    /\ scanArgs' = args
    /\ streamBuf' = createReadStream(store, streamOpts, reverse)
    /\ streamState' = "flowing"
    /\ scanPromise' = "pending"
    /\ UNCHANGED <<store, histKeys, bmKeys, scanResult, delivered>>
    /\ UNCHANGED <<qvars, lvars, cvars>>

\* the part every 'data' listener shares: the stream hands over its next entry
Deliver(op) ==
    /\ scanOp = op
    /\ streamState = "flowing"
    /\ streamBuf # <<>>
    /\ delivered' = delivered + 1
    /\ UNCHANGED <<store, scanOp, scanArgs>>
    /\ UNCHANGED <<qvars, lvars, cvars>>

\* the part every 'end' listener shares: the stream is exhausted
AtEnd(op) ==
    /\ scanOp = op
    /\ streamState = "flowing"
    /\ streamBuf = <<>>
    /\ streamState' = "ended"
    /\ UNCHANGED <<store, scanOp, scanArgs, streamBuf, data, delivered>>
    /\ UNCHANGED <<qvars, lvars, cvars>>

\* resolve(x) of the scan's promise
Resolve(x) ==
    /\ scanPromise' = IF scanPromise = "pending" THEN "fulfilled" ELSE scanPromise
    /\ scanResult' = IF scanPromise = "pending" THEN x ELSE scanResult

(***************************************************************************)
(* termRangeLookup                                                         *)
(***************************************************************************)
TermRangeOpts(termKey) == [gte |-> termKey, lte |-> termKey \o <<MaxChar>>]

TermInitResults(termsSet) == [k \in termsSet |-> Null]

TermAcceptsAny(key, termsSet) == TRUE

TermAccepts(key, termsSet) == key \in termsSet

StartTermRangeLookup(termKey, termsSet) ==
    /\ OpenScan("termRangeLookup",
                [NoArgs EXCEPT !.termKey = termKey, !.termsSet = termsSet],
                TermRangeOpts(termKey), FALSE)
    /\ data' = TermInitResults(termsSet)

TermData ==
    /\ Deliver("termRangeLookup")
    /\ LET key == Head(streamBuf) IN
         data' = IF TermAccepts(key, scanArgs.termsSet)
                   THEN MapSet(data, key, store[key])
                   ELSE data
    /\ streamBuf' = Tail(streamBuf)
    /\ UNCHANGED <<streamState, histKeys, bmKeys, scanPromise, scanResult>>

TermEnd ==
    /\ AtEnd("termRangeLookup")
    /\ Resolve(data)
    /\ UNCHANGED <<histKeys, bmKeys>>

(***************************************************************************)
(* rangeLookup                                                             *)
(***************************************************************************)
StartRangeLookup(opts) ==
    /\ OpenScan("rangeLookup", [NoArgs EXCEPT !.opts = opts], opts, FALSE)
    /\ data' = EmptyMap

RangeData ==
    /\ Deliver("rangeLookup")
    /\ LET key == Head(streamBuf) IN
         data' = MapSet(data, key, normalizeTimestampVals(store[key]).pageId)
    /\ streamBuf' = Tail(streamBuf)
    /\ UNCHANGED <<streamState, histKeys, bmKeys, scanPromise, scanResult>>

RangeEnd ==
    /\ AtEnd("rangeLookup")
    /\ Resolve(data)
    /\ UNCHANGED <<histKeys, bmKeys>>

(***************************************************************************)
(* reverseRangeLookup                                                      *)
(***************************************************************************)
LimitReached(size, limit) == size >= limit

\* { latest: removeKeyType(key), ...meta }
ReverseEntry(key, meta) ==
    Obj([f \in {"latest"} \cup DOMAIN meta |->
            IF f \in DOMAIN meta THEN meta[f] ELSE Str(removeKeyType(key))])

ReverseCollectOverwrite(m, key, value) ==
    LET n == normalizeTimestampVals(value)
    IN MapSet(m, n.pageId, ReverseEntry(key, n.meta))

ReverseCollect(m, key, value) ==
    LET n == normalizeTimestampVals(value)
    IN IF n.pageId \notin DOMAIN m
         THEN MapSet(m, n.pageId, ReverseEntry(key, n.meta))
         ELSE m

StartReverseRangeLookup(limit, opts) ==
    /\ OpenScan("reverseRangeLookup",
                [NoArgs EXCEPT !.limit = limit, !.opts = opts], opts, TRUE)
    /\ data' = EmptyMap

ReverseData ==
    /\ Deliver("reverseRangeLookup")
    /\ LET key == Head(streamBuf) IN
         IF LimitReached(Cardinality(DOMAIN data), scanArgs.limit)
           THEN \* stream.destroy(); return resolve(data)
                /\ streamState' = "destroyed"
                /\ streamBuf' = <<>>
                /\ Resolve(data)
                /\ UNCHANGED data
           ELSE /\ data' = ReverseCollect(data, key, store[key])
                /\ streamBuf' = Tail(streamBuf)
                /\ UNCHANGED <<streamState, scanPromise, scanResult>>
    /\ UNCHANGED <<histKeys, bmKeys>>

ReverseEnd ==
    /\ AtEnd("reverseRangeLookup")
    /\ Resolve(data)
    /\ UNCHANGED <<histKeys, bmKeys>>

(***************************************************************************)
(* grabExistingKeys                                                        *)
(***************************************************************************)
PageRange == [gte |-> PagePrefix, lte |-> PagePrefix \o <<MaxChar>>]

\* key.replace('page/', ''): the first occurrence, wherever it is
ReplaceFirst(s, pat) ==
    LET hits == {i \in 1..(Len(s) - Len(pat) + 1) : SubSeq(s, i, i + Len(pat) - 1) = pat}
    IN IF hits = {} THEN s
       ELSE LET i == CHOOSE h \in hits : \A g \in hits : h <= g
            IN SubSeq(s, 1, i - 1) \o SubSeq(s, i + Len(pat), Len(s))

trim(key) == ReplaceFirst(key, PagePrefix)

\* value && value.bookmarks && value.bookmarks.size
HasBookmarksOfAnySize(value) ==
    /\ value.t = "object"
    /\ GetField(value.v, "bookmarks").t = "set"

HasBookmarks(value) ==
    /\ value.t = "object"
    /\ GetField(value.v, "bookmarks").t = "set"
    /\ Cardinality(GetField(value.v, "bookmarks").v) > 0

StartGrabExistingKeys(trimPrefix) ==
    /\ OpenScan("grabExistingKeys", [NoArgs EXCEPT !.trimPrefix = trimPrefix],
                PageRange, FALSE)
    /\ UNCHANGED data

GrabData ==
    /\ Deliver("grabExistingKeys")
    /\ LET key == Head(streamBuf) IN
         /\ bmKeys' = IF HasBookmarks(store[key]) THEN bmKeys \cup {key} ELSE bmKeys
         /\ histKeys' = histKeys \cup {key}
    /\ streamBuf' = Tail(streamBuf)
    /\ UNCHANGED <<streamState, data, scanPromise, scanResult>>

GrabEnd ==
    /\ AtEnd("grabExistingKeys")
    /\ histKeys' = IF scanArgs.trimPrefix THEN {trim(k) : k \in histKeys} ELSE histKeys
    /\ bmKeys' = IF scanArgs.trimPrefix THEN {trim(k) : k \in bmKeys} ELSE bmKeys
    /\ Resolve([histKeys |-> histKeys', bmKeys |-> bmKeys'])

(***************************************************************************)
(* The read stream raises 'error'.  None of the scans registers an 'error' *)
(* listener and none of their promises has a reject path.                  *)
(***************************************************************************)
StreamError ==
    /\ streamState = "flowing"
    /\ streamState' = "errored"
    /\ UNCHANGED <<store, scanOp, scanArgs, streamBuf, data, histKeys, bmKeys,
                   scanPromise, scanResult, delivered>>
    /\ UNCHANGED <<qvars, lvars, cvars>>

NextScan ==
    \/ \E termKey \in TermPrefixes, termsSet \in SUBSET TermKeys :
          StartTermRangeLookup(termKey, termsSet)
    \/ TermData
    \/ TermEnd
    \/ \E opts \in ScanBounds : StartRangeLookup(opts)
    \/ RangeData
    \/ RangeEnd
    \/ \E limit \in Limits, opts \in ScanBounds : StartReverseRangeLookup(limit, opts)
    \/ ReverseData
    \/ ReverseEnd
    \/ \E trimPrefix \in BOOLEAN : StartGrabExistingKeys(trimPrefix)
    \/ GrabData
    \/ GrabEnd
    \/ StreamError

(***************************************************************************)
(* initSingleLookup / initLookupByKeys                                     *)
(***************************************************************************)
MaxKeys == 3

LookupKeyOrder ==
    <<PagePrefix \o <<"a">>, PagePrefix \o <<"b">>, keyGen("term", <<"a">>),
      keyGen("term", <<"b">>), keyGen("term", <<"c">>)>>

LookupKeys == {LookupKeyOrder[i] : i \in 1..MaxKeys}

\* the key lists a call is given: distinct keys, in any order
KeyLists ==
    {l \in UNION {[1..n -> LookupKeys] : n \in 0..MaxKeys} :
        \A i, j \in 1..Len(l) : l[i] = l[j] => i = j}

DefaultConcurrency == 5

Concurrencies == {1, 2}

DefaultValues == {Str(<<"X">>)}

LookupStores ==
    {Merge(f, OtherExtras) : f \in PartialFns({PagePrefix \o <<"a">>}, {Obj([id |-> Str(<<"a">>)])})}

\* index.get(key): the stored value, or an error with notFound set
StoreHas(st, key) == key \in DOMAIN st

\* errors of index.get other than "key absent"
StoreErrors == {"EIO", "ECORRUPT"}

StoreError(code) == [t |-> "StoreError", v |-> code]

\* the catch block of singleLookup: what it does with the error of the get
singleLookupCatchSwallow(error, defaultValue) ==
    [threw |-> FALSE, error |-> "none", value |-> defaultValue]

singleLookupCatch(error, defaultValue) ==
    IF error.notFound
      THEN [threw |-> FALSE, error |-> "none", value |-> defaultValue]
      ELSE [threw |-> TRUE, error |-> error.code, value |-> Undefined]

\* singleLookup: the value of a get that did not fail with another error
NotFoundValueIgnoringDefault(defaultValue) == Null

NotFoundValue(defaultValue) == defaultValue

singleLookup(st, key, defaultValue) ==
    IF StoreHas(st, key) THEN st[key] ELSE NotFoundValue(defaultValue)

\* new Map(entries): a later entry of the same key replaces an earlier one
MapFromEntries(entries) ==
    [k \in {entries[i].key : i \in 1..Len(entries)} |->
        LET last == CHOOSE i \in 1..Len(entries) :
                        /\ entries[i].key = k
                        /\ \A j \in 1..Len(entries) : entries[j].key = k => j <= i
        IN entries[last].value]

\* promise-limit: at most `concurrency` jobs run, the others wait in order
InitialStatesUnlimited(n, concurrency) == [i \in 1..n |-> "inflight"]

InitialStates(n, concurrency) ==
    [i \in 1..n |-> IF i <= concurrency THEN "inflight" ELSE "waiting"]

StartNextWaiting(states) ==
    IF \E i \in 1..Len(states) : states[i] = "waiting"
      THEN LET nxt == CHOOSE i \in 1..Len(states) :
                          /\ states[i] = "waiting"
                          /\ \A j \in 1..Len(states) : states[j] = "waiting" => i <= j
           IN [states EXCEPT ![nxt] = "inflight"]
      ELSE states

\* after a mapper has failed the limiter may drop the jobs still waiting
SkipWaiting(states) ==
    [i \in 1..Len(states) |-> IF states[i] = "waiting" THEN "skipped" ELSE states[i]]

NoEntry == [key |-> <<>>, value |-> Undefined]

\* { concurrency = 5, defaultValue = null, asBuffer = false } = defLookupOpts
ApplyDefaults(given) ==
    [concurrency  |-> IF "concurrency" \in DOMAIN given
                        THEN given.concurrency ELSE DefaultConcurrency,
     defaultValue |-> IF "defaultValue" \in DOMAIN given
                        THEN given.defaultValue ELSE Null]

LookupIdle ==
    /\ lkKeys = <<>>
    /\ lkIsArray = FALSE
    /\ lkOpts = [concurrency |-> DefaultConcurrency, defaultValue |-> Null]
    /\ lkState = <<>>
    /\ lkEntries = <<>>
    /\ lkDoneOrder = <<>>
    /\ lkPromise = "none"
    /\ lkResult = EmptyMap
    /\ lkGiven = EmptyMap
    /\ lkGetError = <<>>
    /\ lkError = "none"
    /\ fxPageId = <<>>
    /\ fxPromise = "none"
    /\ fxValue = Undefined

\* lookupByKeys(keys) with an array: runConcurrent.map starts the first gets
StartLookupByKeys(keys, opts) ==
    /\ lkPromise = "none" /\ fxPromise = "none"
    /\ lkKeys' = keys
    /\ lkIsArray' = TRUE
    /\ lkGiven' = opts
    /\ lkOpts' = ApplyDefaults(opts)
    /\ lkState' = InitialStates(Len(keys), ApplyDefaults(opts).concurrency)
    /\ lkEntries' = [i \in 1..Len(keys) |-> NoEntry]
    /\ lkGetError' = [i \in 1..Len(keys) |-> "none"]
    /\ lkPromise' = "pending"
    /\ UNCHANGED <<lkDoneOrder, lkResult, lkError, fxPageId, fxPromise, fxValue>>
    /\ UNCHANGED <<qvars, svars, cvars>>

\* lookupByKeys(key) with one bare key: a single get, no limiter
StartLookupOfSingleKey(key, opts) ==
    /\ lkPromise = "none" /\ fxPromise = "none"
    /\ lkKeys' = <<key>>
    /\ lkIsArray' = FALSE
    /\ lkGiven' = opts
    /\ lkOpts' = ApplyDefaults(opts)
    /\ lkState' = <<"inflight">>
    /\ lkEntries' = <<NoEntry>>
    /\ lkGetError' = <<"none">>
    /\ lkPromise' = "pending"
    /\ UNCHANGED <<lkDoneOrder, lkResult, lkError, fxPageId, fxPromise, fxValue>>
    /\ UNCHANGED <<qvars, svars, cvars>>

\* the get of key i answers (value or notFound): singleLookup returns, the
\* entry is built and the limiter starts the next waiting lookup
GetReturns(i) ==
    /\ i \in 1..Len(lkState)
    /\ lkState[i] = "inflight"
    /\ lkEntries' = [lkEntries EXCEPT ![i] =
                        [key |-> lkKeys[i],
                         value |-> singleLookup(store, lkKeys[i], lkOpts.defaultValue)]]
    /\ lkState' = StartNextWaiting([lkState EXCEPT ![i] = "done"])
    /\ lkDoneOrder' = Append(lkDoneOrder, i)
    /\ UNCHANGED <<lkKeys, lkIsArray, lkOpts, lkPromise, lkResult>>
    /\ UNCHANGED <<lkGiven, lkGetError, lkError, fxPageId, fxPromise, fxValue>>
    /\ UNCHANGED <<qvars, svars, cvars>>

\* the get of key i fails with another error: singleLookup rethrows it and
\* the call's promise rejects; the limiter then starts the next waiting
\* lookup or, having seen a failure, drops the lookups still waiting
GetFails(i, code, skip) ==
    /\ i \in 1..Len(lkState)
    /\ lkState[i] = "inflight"
    /\ lkGetError' = [lkGetError EXCEPT ![i] = code]
    /\ lkDoneOrder' = Append(lkDoneOrder, i)
    /\ LET out == singleLookupCatch([notFound |-> FALSE, code |-> code],
                                    lkOpts.defaultValue)
       IN IF out.threw
            THEN /\ lkState' = IF skip
                                 THEN SkipWaiting([lkState EXCEPT ![i] = "failed"])
                                 ELSE StartNextWaiting([lkState EXCEPT ![i] = "failed"])
                 /\ lkPromise' = IF lkPromise = "pending" THEN "rejected" ELSE lkPromise
                 /\ lkError' = IF lkPromise = "pending" THEN out.error ELSE lkError
                 /\ UNCHANGED lkEntries
            ELSE /\ lkState' = StartNextWaiting([lkState EXCEPT ![i] = "done"])
                 /\ lkEntries' = [lkEntries EXCEPT ![i] =
                                     [key |-> lkKeys[i], value |-> out.value]]
                 /\ UNCHANGED <<lkPromise, lkError>>
    /\ UNCHANGED <<lkKeys, lkIsArray, lkOpts, lkResult, lkGiven>>
    /\ UNCHANGED <<fxPageId, fxPromise, fxValue>>
    /\ UNCHANGED <<qvars, svars, cvars>>

\* every lookup has returned: return new Map(entries)
LookupReturns ==
    /\ lkPromise = "pending"
    /\ \A i \in 1..Len(lkState) : lkState[i] = "done"
    /\ lkResult' = MapFromEntries(lkEntries)
    /\ lkPromise' = "fulfilled"
    /\ UNCHANGED <<lkKeys, lkIsArray, lkOpts, lkState, lkEntries, lkDoneOrder>>
    /\ UNCHANGED <<lkGiven, lkGetError, lkError, fxPageId, fxPromise, fxValue>>
    /\ UNCHANGED <<qvars, svars, cvars>>

(***************************************************************************)
(* fetchExistingPage                                                       *)
(***************************************************************************)
FetchPageIds == {<<"a">>, <<"b">>} \cup PageKeys

\* new Error(`No document exists ... for the supplied page ID: ${pageId}`)
NoDocumentError(pageId) == [t |-> "Error", v |-> pageId]

\* the key initSingleLookup()(pageId) hands to index.get
FetchKey(pageId) == pageId

\* fetchExistingPage(pageId): the lookup is issued with the default options
StartFetchExistingPage(pageId) ==
    /\ lkPromise = "none" /\ fxPromise = "none"
    /\ fxPageId' = pageId
    /\ fxPromise' = "pending"
    /\ UNCHANGED <<lkKeys, lkIsArray, lkOpts, lkState, lkEntries, lkDoneOrder,
                   lkPromise, lkResult, lkGiven, lkGetError, lkError, fxValue>>
    /\ UNCHANGED <<qvars, svars, cvars>>

\* the get answers (value or notFound): a null doc throws, any other is returned
FetchGetReturns ==
    /\ fxPromise = "pending"
    /\ LET reverseIndexDoc ==
               singleLookup(store, FetchKey(fxPageId), ApplyDefaults(EmptyMap).defaultValue)
       IN IF reverseIndexDoc \in {Null, Undefined}
            THEN /\ fxPromise' = "rejected"
                 /\ fxValue' = NoDocumentError(fxPageId)
            ELSE /\ fxPromise' = "fulfilled"
                 /\ fxValue' = reverseIndexDoc
    /\ UNCHANGED <<lkKeys, lkIsArray, lkOpts, lkState, lkEntries, lkDoneOrder,
                   lkPromise, lkResult, lkGiven, lkGetError, lkError, fxPageId>>
    /\ UNCHANGED <<qvars, svars, cvars>>

\* the get fails with another error: singleLookup rethrows, so does the fetch
FetchGetFails(code) ==
    /\ fxPromise = "pending"
    /\ LET out == singleLookupCatch([notFound |-> FALSE, code |-> code],
                                    ApplyDefaults(EmptyMap).defaultValue)
       IN IF out.threw
            THEN /\ fxPromise' = "rejected"
                 /\ fxValue' = StoreError(out.error)
            ELSE IF out.value \in {Null, Undefined}
                   THEN /\ fxPromise' = "rejected"
                        /\ fxValue' = NoDocumentError(fxPageId)
                   ELSE /\ fxPromise' = "fulfilled"
                        /\ fxValue' = out.value
    /\ UNCHANGED <<lkKeys, lkIsArray, lkOpts, lkState, lkEntries, lkDoneOrder,
                   lkPromise, lkResult, lkGiven, lkGetError, lkError, fxPageId>>
    /\ UNCHANGED <<qvars, svars, cvars>>

LookupOpts == [concurrency : Concurrencies, defaultValue : DefaultValues]

\* the options a caller may pass: all, some or none of them
LookupOptsGiven == LookupOpts \cup {EmptyMap, [concurrency |-> 1]}

NextLookup ==
    \/ \E keys \in KeyLists, opts \in LookupOptsGiven : StartLookupByKeys(keys, opts)
    \/ \E key \in LookupKeys, opts \in LookupOptsGiven : StartLookupOfSingleKey(key, opts)
    \/ \E i \in 1..MaxKeys : GetReturns(i)
    \/ \E i \in 1..MaxKeys, code \in StoreErrors, skip \in BOOLEAN : GetFails(i, code, skip)
    \/ LookupReturns
    \/ \E pageId \in FetchPageIds : StartFetchExistingPage(pageId)
    \/ FetchGetReturns
    \/ \E code \in StoreErrors : FetchGetFails(code)

(***************************************************************************)
(* Synchronous helpers: keyGen, removeKeyType, extractContent              *)
(***************************************************************************)
MaxRawLen == 2

MaxContentLen == 3

Seqs(S, n) == UNION {[1..k -> S] : k \in 0..n}

CallIdle ==
    /\ callOp = "none"
    /\ callArgs = EmptyMap
    /\ callArgsAfter = EmptyMap
    /\ callResult = Undefined
    /\ callSame = FALSE

\* one call of a helper that leaves its arguments alone and returns a new value
Returns(op, args, result) ==
    /\ callOp = "none"
    /\ callOp' = op
    /\ callArgs' = args
    /\ callArgsAfter' = args
    /\ callResult' = result
    /\ callSame' = FALSE
    /\ UNCHANGED <<qvars, svars, lvars>>

Namespaces == DOMAIN NsChars

ShortKeys == Seqs({"a", "/"}, MaxRawLen)

\* raw keys: plain ones, ones that begin with a namespace prefix, ones with
\* a prefix the codec does not know and ones with a namespace further in
RawKeys ==
    ShortKeys
        \cup {keyGen(ns, k) : ns \in Namespaces, k \in ShortKeys}
        \cup {PagePrefix \o k : k \in ShortKeys}
        \cup {<<"x">> \o keyGen(ns, k) : ns \in Namespaces, k \in ShortKeys}

CallKeyGen(ns, key) ==
    Returns("keyGen", [ns |-> ns, key |-> key], keyGen(ns, key))

CallRemoveKeyType(key) ==
    Returns("removeKeyType", [key |-> key], removeKeyType(key))

\* removeKeyType(keyGen[ns](key)): the key just generated is decoded
DecodeGenerated ==
    /\ callOp = "keyGen"
    /\ callOp' = "removeKeyType(keyGen)"
    /\ callResult' = removeKeyType(callResult)
    /\ UNCHANGED <<callArgs, callArgsAfter, callSame>>
    /\ UNCHANGED <<qvars, svars, lvars>>

\* String.prototype.toLowerCase over the model's alphabet
toLowerCase(word) ==
    [i \in 1..Len(word) |->
        IF word[i] = "X" THEN "x" ELSE IF word[i] = "Y" THEN "y" ELSE word[i]]

\* String.prototype.split with a non-empty string separator
RECURSIVE split(_, _)
split(content, separator) ==
    LET n == Len(separator)
        hits == {i \in 1..(Len(content) - n + 1) : SubSeq(content, i, i + n - 1) = separator}
    IN IF hits = {} THEN <<content>>
       ELSE LET i == CHOOSE h \in hits : \A g \in hits : h <= g
            IN <<SubSeq(content, 1, i - 1)>>
                   \o split(SubSeq(content, i + n, Len(content)), separator)

endsWith(term, ch) == term # <<>> /\ term[Len(term)] = ch

\* { separator = DEFAULT_TERM_SEPARATOR, key = 'term' }
ExtractKey(opts) == IF "key" \in DOMAIN opts THEN opts.key ELSE "term"

extractContent(content, opts) ==
    LET words == split(content, opts.separator)
        terms == [i \in 1..Len(words) |-> keyGen(ExtractKey(opts), toLowerCase(words[i]))]
    IN SelectSeq(terms, LAMBDA term : ~endsWith(term, "/"))

ContentChars == {"a", "X", "/", " "}

Contents == Seqs(ContentChars, MaxContentLen)

Separators == {<<" ">>, <<"/">>}

ExtractOpts ==
    [separator : Separators] \cup [separator : Separators, key : {"term", "title"}]

CallExtractContent(content, opts) ==
    Returns("extractContent", [content |-> content, opts |-> opts],
            extractContent(content, opts))

(***************************************************************************)
(* normalizeTimestampVals as a call                                        *)
(***************************************************************************)
NormalizeInputs ==
    TimestampVals
        \cup {Obj([pageId |-> Str(<<"p", "1">>)]),
              Obj([foo |-> Str(<<"1">>)]),
              Obj([pageId |-> Str(<<"p", "1">>), foo |-> Str(<<"1">>), bar |-> Null])}

CallNormalizeTimestampVals(value) ==
    Returns("normalizeTimestampVals", [value |-> value], normalizeTimestampVals(value))

(***************************************************************************)
(* getLatestVisitOrBookmark / augmentIndexLookupDoc                        *)
(* A Set is the sequence of its elements in insertion order.               *)
(***************************************************************************)
TypeError == [t |-> "TypeError", v |-> <<>>]

Last(elems) == elems[Len(elems)]

\* !visits.size ? [...bookmarks][bookmarks.size - 1] : [...visits][visits.size - 1]
getLatestVisitOrBookmarkPreferringBookmarks(doc) ==
    IF Len(doc.bookmarks) # 0
      THEN Str(Last(doc.bookmarks))
      ELSE IF Len(doc.visits) = 0 THEN Undefined ELSE Str(Last(doc.visits))

getLatestVisitOrBookmark(doc) ==
    IF Len(doc.visits) = 0
      THEN IF Len(doc.bookmarks) = 0 THEN Undefined ELSE Str(Last(doc.bookmarks))
      ELSE Str(Last(doc.visits))

\* { ...doc, latest: removeKeyType(getLatestVisitOrBookmark(doc)) };
\* undefined has no replace method
augmentIndexLookupDoc(doc) ==
    LET latest == getLatestVisitOrBookmark(doc)
    IN IF latest.t = "string"
         THEN MapSet(doc, "latest", removeKeyType(latest.v))
         ELSE TypeError

DistinctSeqs(S) ==
    {q \in Seqs(S, Cardinality(S)) : \A i, j \in 1..Len(q) : q[i] = q[j] => i = j}

VisitSets == DistinctSeqs({VisitKey(1), VisitKey(2)})

BookmarkSets == DistinctSeqs({keyGen("bookmark", <<"1">>), keyGen("bookmark", <<"3">>)})

LookupDocs ==
    [visits : VisitSets, bookmarks : BookmarkSets]
        \cup [visits : VisitSets, bookmarks : BookmarkSets, id : {<<"a">>}, latest : {<<"0">>}]

CallAugmentIndexLookupDoc(doc) ==
    Returns("augmentIndexLookupDoc", [doc |-> doc], augmentIndexLookupDoc(doc))

(***************************************************************************)
(* boostScores.  The boost is a number of quarters, so that every product  *)
(* is exact in floating point.                                             *)
(***************************************************************************)
MaxScore == 6

MaxBoost == 4

BoostDen == 4

Boosts == (1 - BoostDen)..MaxBoost

RECURSIVE NatToStr(_)
NatToStr(n) ==
    IF n < 10 THEN <<DigitChar(n)>> ELSE NatToStr(n \div 10) \o <<DigitChar(n % 10)>>

IsDigits(str) == \A i \in 1..Len(str) : \E d \in 0..9 : str[i] = DigitChar(d)

RECURSIVE DigitsToNat(_)
DigitsToNat(str) ==
    IF str = <<>> THEN 0
    ELSE 10 * DigitsToNat(SubSeq(str, 1, Len(str) - 1))
           + (CHOOSE d \in 0..9 : Last(str) = DigitChar(d))

\* +score.latest is a number unless latest is missing or not all digits;
\* the empty string converts to 0
IsNumber(score) == "latest" \in DOMAIN score /\ IsDigits(score.latest)

\* Number.prototype.toFixed() of num / den >= 0: the nearest integer, the
\* larger one of two equally near
toFixedTruncating(num, den) == NatToStr(num \div den)

toFixed(num, den) == NatToStr((2 * num + den) \div (2 * den))

boostScores(pageScoresMap, boost) ==
    IF boost = 0
      THEN pageScoresMap
      ELSE [pageId \in DOMAIN pageScoresMap |->
              LET score == pageScoresMap[pageId]
              IN IF IsNumber(score)
                   THEN [latest |-> toFixed(DigitsToNat(score.latest) * (BoostDen + boost),
                                            BoostDen)]
                   ELSE score]

LatestStrings == {<<"a">>, <<"1", "a">>, <<>>} \cup {NatToStr(n) : n \in 0..MaxScore}

Scores ==
    [latest : LatestStrings] \cup [latest : LatestStrings, foo : {<<"1">>}]
        \cup {[foo |-> <<"1">>]}

ScoreMaps == PartialFns({<<"p", "1">>, <<"p", "2">>}, Scores)

\* boostScores changes the Map it was given and returns that Map
CallBoostScores(pageScoresMap, boost) ==
    /\ callOp = "none"
    /\ callOp' = "boostScores"
    /\ callArgs' = [pageScoresMap |-> pageScoresMap, boost |-> boost]
    /\ callResult' = boostScores(pageScoresMap, boost)
    /\ callArgsAfter' = [pageScoresMap |-> callResult', boost |-> boost]
    /\ callSame' = TRUE
    /\ UNCHANGED <<qvars, svars, lvars>>

NextHelpers ==
    \/ \E ns \in Namespaces, key \in RawKeys : CallKeyGen(ns, key)
    \/ DecodeGenerated
    \/ \E key \in RawKeys : CallRemoveKeyType(key)
    \/ \E content \in Contents, opts \in ExtractOpts : CallExtractContent(content, opts)
    \/ \E value \in NormalizeInputs : CallNormalizeTimestampVals(value)
    \/ \E doc \in LookupDocs : CallAugmentIndexLookupDoc(doc)
    \/ \E pageScoresMap \in ScoreMaps, boost \in Boosts :
          CallBoostScores(pageScoresMap, boost)

(***************************************************************************)
(* Specifications                                                          *)
(***************************************************************************)
InitQueue == QueueInit /\ store = EmptyMap /\ ScanIdle /\ LookupIdle /\ CallIdle

SpecQueue == InitQueue /\ [][NextQueue]_vars

InitScan == QueueIdle /\ store \in Stores /\ ScanIdle /\ LookupIdle /\ CallIdle

SpecScan == InitScan /\ [][NextScan]_vars

InitLookup == QueueIdle /\ store \in LookupStores /\ ScanIdle /\ LookupIdle /\ CallIdle

SpecLookup == InitLookup /\ [][NextLookup]_vars

InitHelpers == QueueIdle /\ store = EmptyMap /\ ScanIdle /\ LookupIdle /\ CallIdle

SpecHelpers == InitHelpers /\ [][NextHelpers]_vars

\* Fairness: every get the store was handed completes, with a value, with
\* notFound or with another error, and a call whose lookups are done returns.
FairSpecLookup ==
    /\ SpecLookup
    /\ \A i \in 1..MaxKeys :
          WF_vars(GetReturns(i)
                    \/ \E code \in StoreErrors, skip \in BOOLEAN : GetFails(i, code, skip))
    /\ WF_vars(LookupReturns)
    /\ WF_vars(FetchGetReturns \/ \E code \in StoreErrors : FetchGetFails(code))

\* Fairness: the event loop runs every ready reaction, the queue starts the
\* next job when its slot is free, and every fn invocation completes.
FairSpecQueue ==
    /\ SpecQueue
    /\ WF_vars(QueueStart)
    /\ \A c \in Callers :
        /\ WF_vars(FnComplete(c))
        /\ WF_vars(ThenStep(c))
        /\ WF_vars(CatchStep(c))
        /\ WF_vars(QueueNext(c))

Settled == {"fulfilled", "rejected"}

\* position of call c in a log, 0 when it is not in it
Pos(log, c) ==
    IF \E i \in 1..Len(log) : log[i] = c
      THEN CHOOSE i \in 1..Len(log) : log[i] = c
      ELSE 0

InFlight == {c \in Callers : fnOutcome[c] = "pending"}

\* C1: at most one invocation of an underlying fn has started and not yet settled
C1_MutualExclusion == Cardinality(InFlight) <= 1

C1_Witness == Cardinality(InFlight) = 1 /\ Len(indexQueue) >= 2

\* C2: if A was pushed before B then A's fn starts before B's fn and A's caller
\* promise settles before B's, whether A fulfils or rejects
C2_Ordering ==
    \A i, j \in 1..Len(pushOrder) :
        i < j =>
            LET a == pushOrder[i]
                b == pushOrder[j]
            IN /\ Pos(startOrder, b) > 0 =>
                    (Pos(startOrder, a) > 0 /\ Pos(startOrder, a) < Pos(startOrder, b))
               /\ Pos(settleOrder, b) > 0 =>
                    (Pos(settleOrder, a) > 0 /\ Pos(settleOrder, a) < Pos(settleOrder, b))

C2_Witness ==
    /\ Len(settleOrder) = NumCallers
    /\ pushOrder[1] # 1
    /\ callerPromise[pushOrder[1]] = "rejected"
    /\ callerPromise[pushOrder[2]] = "fulfilled"

\* C3: a rejection of one unit's fn reaches that unit's caller only, the queue
\* never sees a failed job, and every unit waiting behind it still runs and
\* settles with its own outcome
C3_FailureIsolation ==
    /\ [](/\ ~queueFailed
          /\ \A c \in Callers :
                callerPromise[c] = "rejected" => fnOutcome[c] = "rejected")
    /\ \A c, d \in Callers :
          (fnOutcome[c] = "rejected" /\ callerPromise[d] = "pending")
              ~> (fnOutcome[d] \in Settled /\ callerPromise[d] = FnSettle(kind[d]))

C3_Witness ==
    \E c, d \in Callers :
        /\ Pos(pushOrder, c) > 0 /\ Pos(pushOrder, c) < Pos(pushOrder, d)
        /\ callerPromise[c] = "rejected"
        /\ callerPromise[d] = "fulfilled"
        /\ c \notin active

\* C4: N concurrent wrapped increments leave the counter at initial + N once
\* all N calls have settled
C4_NoLostUpdates ==
    (\A c \in Callers : kind[c] = "inc" /\ callerPromise[c] \in Settled)
        => counter = InitialCounter + NumCallers

C4_Witness ==
    /\ \A c \in Callers : kind[c] = "inc" /\ callerPromise[c] = "fulfilled"
    /\ pushOrder[1] = NumCallers
    /\ counter = InitialCounter + NumCallers

\* C5: every call settles exactly once, not before its own fn invocation has
\* completed and with that invocation's outcome; every call eventually settles
C5_Completion ==
    /\ [](\A c \in Callers :
            /\ settleCalls[c] <= 1
            /\ callerPromise[c] \in Settled =>
                  (settleCalls[c] = 1 /\ fnOutcome[c] = callerPromise[c]))
    /\ \A c \in Callers :
          (callerPromise[c] = "pending") ~> (callerPromise[c] \in Settled)

C5_Witness ==
    \E c, d \in Callers :
        /\ callerPromise[c] = "rejected" /\ settleCalls[c] = 1
        /\ callerPromise[d] = "fulfilled" /\ settleCalls[d] = 1

Min(a, b) == IF a <= b THEN a ELSE b

InBounds(st, opts) == {k \in DOMAIN st : InRange(k, opts)}

PageIdOf(st, k) == normalizeTimestampVals(st[k]).pageId

DistinctPageIds(st, opts) == {PageIdOf(st, k) : k \in InBounds(st, opts)}

\* the greatest key in bounds whose value names page p
MostRecentKey(st, opts, p) ==
    CHOOSE k \in InBounds(st, opts) :
        /\ PageIdOf(st, k) = p
        /\ \A j \in InBounds(st, opts) : PageIdOf(st, j) = p => ~LexLess(k, j)

\* the pages whose most recent entry is newer than that of p
NewerPages(st, opts, p) ==
    {q \in DistinctPageIds(st, opts) :
        LexLess(MostRecentKey(st, opts, p), MostRecentKey(st, opts, q))}

\* C6 (as claimed): once the scan has collected entries and the number of
\* distinct pageIds collected has reached limit, no further store entry is
\* delivered to the scan
C6_NoEntryPastLimit ==
    [][(/\ scanOp = "reverseRangeLookup"
        /\ delivered > 0
        /\ Cardinality(DOMAIN data) >= scanArgs.limit)
            => delivered' = delivered]_vars

\* C7: the resolved map has min(limit, D) entries, for the pageIds with the
\* most recent entries, each mapped to {latest: stripped key, ...meta} of its
\* most recent entry in bounds
C7_ReverseResult ==
    (scanOp = "reverseRangeLookup" /\ scanPromise = "fulfilled") =>
        LET opts == scanArgs.opts
            D == DistinctPageIds(store, opts)
        IN /\ Cardinality(DOMAIN scanResult) = Min(scanArgs.limit, Cardinality(D))
           /\ DOMAIN scanResult =
                 {p \in D : Cardinality(NewerPages(store, opts, p)) < scanArgs.limit}
           /\ \A p \in DOMAIN scanResult :
                 LET k == MostRecentKey(store, opts, p)
                     meta == normalizeTimestampVals(store[k]).meta
                 IN scanResult[p] =
                        Obj(Merge(meta, [latest |-> Str(removeKeyType(k))]))

C7_Witness ==
    /\ scanOp = "reverseRangeLookup" /\ scanPromise = "fulfilled"
    /\ scanArgs.limit = 2
    /\ Cardinality(DistinctPageIds(store, scanArgs.opts)) > 2
    /\ \E p, q \in DOMAIN scanResult :
         \E k \in InBounds(store, scanArgs.opts) :
            /\ PageIdOf(store, k) = p
            /\ store[k].t = "object"
            /\ k # MostRecentKey(store, scanArgs.opts, p)
            /\ LexLess(MostRecentKey(store, scanArgs.opts, q), k)

\* C8 (as claimed): when the read stream raises an error the promise of the
\* scan fails with it
C8_ErrorPropagates == streamState = "errored" => scanPromise = "rejected"

\* C9: the resolved map's keys are exactly candidateKeys; a candidate maps to
\* its stored value when the store holds it under the prefix, else to null
C9_TermCoverage ==
    (scanOp = "termRangeLookup" /\ scanPromise = "fulfilled") =>
        /\ DOMAIN scanResult = scanArgs.termsSet
        /\ \A k \in scanArgs.termsSet :
              scanResult[k] =
                  IF k \in DOMAIN store /\ HasPrefix(k, scanArgs.termKey)
                    THEN store[k]
                    ELSE Null

C9_Witness ==
    /\ scanOp = "termRangeLookup" /\ scanPromise = "fulfilled"
    /\ \E k \in scanArgs.termsSet : scanResult[k] \in Postings
    /\ \E k \in scanArgs.termsSet : k \notin DOMAIN store
    /\ \E k \in scanArgs.termsSet : k \in DOMAIN store /\ scanResult[k] = Null
    /\ \E k \in DOMAIN store : HasPrefix(k, scanArgs.termKey) /\ k \notin scanArgs.termsSet

C10_WitnessSingle ==
    lkPromise = "fulfilled" /\ ~lkIsArray /\ Cardinality(DOMAIN lkResult) = 1

InFlightGets == {i \in 1..Len(lkState) : lkState[i] = "inflight"}

LookedUp(i) == i <= Len(lkState) /\ lkState[i] \in {"inflight", "done", "failed"}

SomeGetFailed == \E j \in 1..Len(lkGetError) : lkGetError[j] # "none"

FirstFailed ==
    LET pos == CHOOSE n \in 1..Len(lkDoneOrder) :
                   /\ lkGetError[lkDoneOrder[n]] # "none"
                   /\ \A m \in 1..(n - 1) : lkGetError[lkDoneOrder[m]] = "none"
    IN lkDoneOrder[pos]

\* C12: a lookup of an absent key returns defaultValue (null when none is
\* given) and does not fail; a get that fails otherwise makes the lookup fail
\* with that error, and the lookupByKeys call holding it fails as a whole
C12_ErrorPolicy ==
    /\ \A i \in 1..Len(lkKeys) :
          /\ (lkState[i] = "done" /\ lkKeys[i] \notin DOMAIN store) =>
                lkEntries[i].value = IF "defaultValue" \in DOMAIN lkGiven
                                       THEN lkGiven.defaultValue
                                       ELSE Null
          /\ lkState[i] = "failed" => lkGetError[i] # "none"
          /\ lkGetError[i] # "none" => (lkState[i] = "failed" /\ lkPromise = "rejected")
    /\ SomeGetFailed => lkError = lkGetError[FirstFailed]

C12_Witness ==
    /\ lkIsArray /\ lkPromise = "rejected"
    /\ "defaultValue" \notin DOMAIN lkGiven
    /\ \E i, j, k \in 1..Len(lkKeys) :
          /\ lkState[i] = "done" /\ lkKeys[i] \notin DOMAIN store
          /\ lkGetError[j] = "EIO" /\ lkGetError[k] = "ECORRUPT"
          /\ lkError = "ECORRUPT"

\* C13 (as claimed): fetchExistingPage(pageId) returns the record stored under
\* page/<pageId> when there is one and fails with NotFound carrying pageId
\* exactly when there is none
C13_FetchByPageKey ==
    (fxPromise \in Settled /\ fxValue.t # "StoreError") =>
        IF PagePrefix \o fxPageId \in DOMAIN store
          THEN fxPromise = "fulfilled" /\ fxValue = store[PagePrefix \o fxPageId]
          ELSE fxPromise = "rejected" /\ fxValue = NoDocumentError(fxPageId)

\* C14 (as claimed): the result of extractContent is, in order, the encoded lower-cased
\* form of every non-empty piece of the content split on the separator: a
\* piece is dropped if and only if it is empty.
C14_ExtractKeepsNonEmpty ==
    callOp = "extractContent" =>
        LET pieces == SelectSeq(split(callArgs.content, callArgs.opts.separator),
                                LAMBDA piece : piece # <<>>)
        IN callResult =
              [i \in 1..Len(pieces) |->
                  keyGen(ExtractKey(callArgs.opts), toLowerCase(pieces[i]))]

\* C15: decoding the key generated for any namespace and raw key gives the
\* raw key back, also when the raw key itself begins with a namespace
\* prefix; decoding a key with no known leading prefix returns it unchanged.
C15_CodecRoundTrip ==
    /\ callOp = "removeKeyType(keyGen)" => callResult = callArgs.key
    /\ (callOp = "removeKeyType" /\ ~KnownPrefix(callArgs.key)) =>
          callResult = callArgs.key

C15_Witness ==
    /\ callOp = "removeKeyType(keyGen)"
    /\ callArgs.ns = "term"
    /\ callArgs.key = keyGen("visit", <<"a">>)
    /\ callResult = keyGen("visit", <<"a">>)

\* C16: grabExistingKeys resolves with histKeys = the keys stored in the
\* page/ range and bmKeys = those of them whose record has a non-empty
\* bookmark set, each without its page/ prefix if and only if trimPrefix is set.
C16_GrabResult ==
    (scanOp = "grabExistingKeys" /\ scanPromise = "fulfilled") =>
        LET pages == {k \in DOMAIN store : HasPrefix(k, PagePrefix)}
            marked == {k \in pages :
                          /\ "bookmarks" \in DOMAIN store[k].v
                          /\ store[k].v.bookmarks.v # {}}
            out(k) == IF scanArgs.trimPrefix THEN DropFirst(k, Len(PagePrefix)) ELSE k
        IN /\ scanResult.histKeys = {out(k) : k \in pages}
           /\ scanResult.bmKeys = {out(k) : k \in marked}
           /\ scanResult.bmKeys \subseteq scanResult.histKeys

C16_Witness ==
    /\ scanOp = "grabExistingKeys"
    /\ scanPromise = "fulfilled"
    /\ scanArgs.trimPrefix
    /\ scanResult.histKeys = {<<"a">>, <<"b">>}
    /\ scanResult.bmKeys = {<<"b">>}
    /\ "bookmarks" \notin DOMAIN store[PagePrefix \o <<"a">>].v

\* C17: for a doc with a visit or a bookmark, augmentIndexLookupDoc returns
\* a new object whose latest is the last visit without its namespace when
\* there is a visit, the last bookmark without its namespace otherwise;
\* every other field is that of doc, and doc is as it was.
C17_AugmentLatest ==
    (callOp = "augmentIndexLookupDoc"
        /\ (callArgs.doc.visits # <<>> \/ callArgs.doc.bookmarks # <<>>)) =>
        LET doc == callArgs.doc IN
          /\ IF doc.visits # <<>>
               THEN keyGen("visit", callResult.latest) = Last(doc.visits)
               ELSE keyGen("bookmark", callResult.latest) = Last(doc.bookmarks)
          /\ DOMAIN callResult = DOMAIN doc \cup {"latest"}
          /\ \A f \in DOMAIN doc \ {"latest"} : callResult[f] = doc[f]
          /\ callArgsAfter = callArgs
          /\ ~callSame

C17_Witness ==
    /\ callOp = "augmentIndexLookupDoc"
    /\ callArgs.doc.visits = <<VisitKey(1), VisitKey(2)>>
    /\ callArgs.doc.bookmarks = <<keyGen("bookmark", <<"1">>), keyGen("bookmark", <<"3">>)>>
    /\ "id" \in DOMAIN callArgs.doc
    /\ callResult.latest = <<"2">>

\* the integer nearest to num / den, the larger one of two equally near
Round(num, den) ==
    CHOOSE r \in 0..(num + 1) : 2 * r * den > 2 * num - den /\ 2 * r * den <= 2 * num + den

\* C18: with boost 0 boostScores returns the Map it was given with every
\* entry as it was; with another boost b > -1 an entry whose latest is a
\* number L gets latest = the string of round(L * (1 + b)) and an entry
\* whose latest is not a number is left as it was.
C18_BoostValue ==
    callOp = "boostScores" =>
        LET before == callArgs.pageScoresMap
            boost == callArgs.boost
        IN /\ callSame
           /\ callResult = callArgsAfter.pageScoresMap
           /\ DOMAIN callResult = DOMAIN before
           /\ boost = 0 => callResult = before
           /\ boost # 0 =>
                \A p \in DOMAIN before :
                    IF "latest" \in DOMAIN before[p] /\ IsDigits(before[p].latest)
                      THEN callResult[p].latest =
                              NatToStr(Round(DigitsToNat(before[p].latest) * (BoostDen + boost),
                                             BoostDen))
                      ELSE callResult[p] = before[p]

C18_Witness ==
    /\ callOp = "boostScores"
    /\ callArgs.boost = 1
    /\ DOMAIN callArgs.pageScoresMap = {<<"p", "1">>, <<"p", "2">>}
    /\ callArgs.pageScoresMap[<<"p", "1">>] = [latest |-> <<"2">>]
    /\ callArgs.pageScoresMap[<<"p", "2">>] = [latest |-> <<"1", "a">>]
    /\ callResult[<<"p", "1">>].latest = <<"3">>
    /\ callResult[<<"p", "2">>].latest = <<"1", "a">>

\* C19: normalizeTimestampVals of a string v is {pageId: v, meta: {}}, of a
\* record r it is {pageId: r.pageId, meta: r without pageId}, and the value
\* passed in is the same after the call.
C19_NormalizeShapes ==
    callOp = "normalizeTimestampVals" =>
        LET value == callArgs.value IN
          /\ value.t = "string" =>
                callResult.pageId = value /\ DOMAIN callResult.meta = {}
          /\ value.t = "object" =>
                /\ callResult.pageId = GetField(value.v, "pageId")
                /\ DOMAIN callResult.meta = DOMAIN value.v \ {"pageId"}
                /\ \A f \in DOMAIN callResult.meta : callResult.meta[f] = value.v[f]
          /\ DOMAIN callResult = {"pageId", "meta"}
          /\ callArgsAfter = callArgs

C19_Witness ==
    /\ callOp = "normalizeTimestampVals"
    /\ callArgs.value = Obj([pageId |-> Str(<<"p", "1">>), foo |-> Str(<<"1">>)])
    /\ callResult.pageId = Str(<<"p", "1">>)
    /\ callResult.meta = [foo |-> Str(<<"1">>)]

\* C20 (as claimed): a call of boostScores with a boost other than 0 keeps the pageIds
\* of the Map and every field of every entry other than latest.
C20_BoostFrame ==
    (callOp = "boostScores" /\ callArgs.boost # 0) =>
        /\ DOMAIN callResult = DOMAIN callArgs.pageScoresMap
        /\ \A p \in DOMAIN callResult :
              \A f \in DOMAIN callArgs.pageScoresMap[p] \ {"latest"} :
                  /\ f \in DOMAIN callResult[p]
                  /\ callResult[p][f] = callArgs.pageScoresMap[p][f]

====
